---- MODULE Spec2Model ----
(***************************************************************************)
(* Pattern resolution of internal/plugins/db/fsdb/patterns.go.             *)
(*                                                                         *)
(* A text is a sequence of tokens; each token stands for a fixed piece of  *)
(* text and a sequence for the concatenation of its tokens:                *)
(*   "{{"  "}}"  "input"  "name"  "{{ext:openai:chat:"  "\n"               *)
(*   "__FABRIC_INPUT_SENTINEL_TOKEN__"  and plain words.                   *)
(* "{{input}}" is the three tokens <<"{{", "input", "}}">>; an extension   *)
(* call {{ext:openai:chat:V}} is <<"{{ext:openai:chat:">> \o V \o         *)
(* <<"}}">>.                                                               *)
(* strings.Contains / HasSuffix / ReplaceAll are computed on the token     *)
(* sequences as Go computes them on the bytes.                             *)
(***************************************************************************)
EXTENDS Integers, Sequences, FiniteSets, TLC

VARIABLES
    mainDir,            \* o.Dir: pattern name -> body file text, or NoFile
    customDir,          \* the directory CustomPatternsDir names: name -> text, or NoFile
    CustomPatternsDir,  \* o.CustomPatternsDir: "" when not configured
    files,              \* files addressed by path: path -> text, or NoFile
    unlistable,         \* the directories ("main", "custom") whose entries cannot be read
    call,               \* the last public call: its arguments and what it returned
    thr,                \* calls running in parallel: thread -> where it is and what it holds
    heap,               \* the Pattern values in memory: address -> Pattern field
    invocation,         \* the dispatcher invocation under way: where it is, its result
    child               \* the child process of that invocation

\* the filesystem and the configuration
store == <<mainDir, customDir, CustomPatternsDir, files, unlistable>>

\* the calls running in parallel and the memory they work on
conc == <<thr, heap>>

\* the dispatcher and its child process
exec == <<invocation, child>>

vars == <<store, call, conc, exec>>

----------------------------------------------------------------------------
(* Tokens *)

L == "{{"
R == "}}"
INPUT == "input"
EXT == "{{ext:openai:chat:"
EXT_CLAUDE == "{{ext:claude:chat:"
EXT_NOEXT == "{{ext:nosuch:chat:"
EXT_NOOP == "{{ext:openai:nosuch:"
NL == "\n"
inputSentinel == "__FABRIC_INPUT_SENTINEL_TOKEN__"
InputPlaceholder == <<L, INPUT, R>>

\* a file that does not exist (or cannot be read), and a file holding text t
NoFile == [exists |-> FALSE, text |-> <<>>]
File(t) == [exists |-> TRUE, text |-> t]

\* Go's nil error, and an error value with what it identifies
NoErr == [kind |-> "nil", name |-> "", operation |-> ""]
Err(k, n, o) == [kind |-> k, name |-> n, operation |-> o]

\* a nil *Pattern, and a pointer to Pattern{Name: n, Pattern: t}
NilPattern == [isNil |-> TRUE, Name |-> <<>>, Pattern |-> <<>>]
PatternOf(n, t) == [isNil |-> FALSE, Name |-> n, Pattern |-> t]

----------------------------------------------------------------------------
(* Go's strings package on token sequences *)

\* strings.HasPrefix(s, p)
HasPrefix(s, p) == Len(s) >= Len(p) /\ SubSeq(s, 1, Len(p)) = p

\* strings.HasSuffix(s, p)
HasSuffix(s, p) == Len(s) >= Len(p) /\ SubSeq(s, Len(s) - Len(p) + 1, Len(s)) = p

\* strings.Contains(s, sub)
Contains(s, sub) ==
    \E i \in 1..(Len(s) - Len(sub) + 1) : SubSeq(s, i, i + Len(sub) - 1) = sub

\* strings.ReplaceAll(s, old, new), old non-empty: the non-overlapping
\* occurrences of old, found left to right, each replaced once; the
\* replacement is not scanned again.
RECURSIVE ReplaceAll(_, _, _)
ReplaceAll(s, old, new) ==
    IF Len(s) < Len(old) THEN s
    ELSE IF SubSeq(s, 1, Len(old)) = old
         THEN new \o ReplaceAll(SubSeq(s, Len(old) + 1, Len(s)), old, new)
         ELSE <<Head(s)>> \o ReplaceAll(Tail(s), old, new)

----------------------------------------------------------------------------
(* The extension dispatcher and the template expander: package template is *)
(* not among the sources; both follow sections 4.2 and 4.3 of the          *)
(* specification.                                                          *)

\* the extension call each opening token spells
ExtCallOf ==
    [t \in {EXT, EXT_CLAUDE, EXT_NOEXT, EXT_NOOP} |->
        CASE t = EXT        -> [name |-> "openai", operation |-> "chat"]
          [] t = EXT_CLAUDE -> [name |-> "claude", operation |-> "chat"]
          [] t = EXT_NOEXT  -> [name |-> "nosuch", operation |-> "chat"]
          [] OTHER          -> [name |-> "openai", operation |-> "nosuch"]]
IsExtOpen(tok) == tok \in DOMAIN ExtCallOf
IsOpen(tok) == tok = L \/ IsExtOpen(tok)

\* Extension Registry: name -> the operations its definition maps
ExtensionRegistry == [n \in {"openai", "claude"} |-> [operations |-> {"chat"}]]

\* what the extension's executable does with its argument: what it writes
\* to standard output and its exit status
ExecModes == {"echo", "fixed", "exit1"}
Execute(env, value) ==
    CASE env = "echo"  -> [exit |-> 0, stdout |-> value \o <<NL>>]
      [] env = "fixed" -> [exit |-> 0, stdout |-> <<"ok", NL>>]
      [] OTHER         -> [exit |-> 1, stdout |-> <<>>]

\* the captured output, trimmed of a single trailing line break
TrimLineBreak(s) == IF HasSuffix(s, <<NL>>) THEN SubSeq(s, 1, Len(s) - 1) ELSE s

\* Extension Dispatcher: Run(name, operation, value); spawned: a child
\* process was started
Dispatch(name, operation, value, env) ==
    IF name \notin DOMAIN ExtensionRegistry
    THEN [err |-> Err("ExtensionNotFound", name, ""), out |-> <<>>, spawned |-> FALSE]
    ELSE IF operation \notin ExtensionRegistry[name].operations
    THEN [err |-> Err("OperationNotFound", name, operation), out |-> <<>>, spawned |-> FALSE]
    ELSE LET run == Execute(env, value) IN
         IF run.exit # 0
         THEN [err |-> Err("ExecutionFailed", name, operation), out |-> <<>>, spawned |-> TRUE]
         ELSE [err |-> NoErr, out |-> TrimLineBreak(run.stdout), spawned |-> TRUE]

\* the index of the "}}" that closes the placeholder opened before t[i],
\* 0 when it is never closed
RECURSIVE FindClose(_, _, _)
FindClose(t, i, depth) ==
    IF i > Len(t) THEN 0
    ELSE IF t[i] = R
         THEN IF depth = 1 THEN i ELSE FindClose(t, i + 1, depth - 1)
         ELSE IF IsOpen(t[i]) THEN FindClose(t, i + 1, depth + 1)
         ELSE FindClose(t, i + 1, depth)

\* {{variableName}}: the value from the mapping, the empty string for an
\* unknown name; the reserved name is bound to the input argument
VariableValue(body, variables, input) ==
    IF body = <<INPUT>> THEN input
    ELSE IF Len(body) = 1 /\ body[1] \in DOMAIN variables THEN variables[body[1]]
    ELSE <<>>

\* the placeholder expander, left to right and inside-out; inArg: the text
\* is the argument of an extension call, where the reserved input
\* placeholder (by now the sentinel) resolves to the real input.
\* calls: the dispatcher invocations, in order; runs: the child processes
\* started, in order.
RECURSIVE Expand(_, _, _, _, _)
Expand(t, variables, input, env, inArg) ==
    IF t = <<>> THEN [err |-> NoErr, text |-> <<>>, calls |-> <<>>, runs |-> <<>>]
    ELSE
    LET h == Head(t)
        j == IF IsOpen(h) THEN FindClose(t, 2, 1) ELSE 0
    IN  IF j = 0
        THEN LET out  == IF h = inputSentinel /\ inArg THEN input ELSE <<h>>
                 rest == Expand(Tail(t), variables, input, env, inArg)
             IN  [err |-> rest.err, text |-> out \o rest.text, calls |-> rest.calls,
                  runs |-> rest.runs]
        ELSE
        LET body  == SubSeq(t, 2, j - 1)
            after == SubSeq(t, j + 1, Len(t))
        IN  IF IsExtOpen(h)
            THEN LET a == Expand(body, variables, input, env, TRUE) IN
                 IF a.err # NoErr THEN a
                 ELSE
                 LET c == [name |-> ExtCallOf[h].name,
                           operation |-> ExtCallOf[h].operation,
                           value |-> a.text]
                     d == Dispatch(c.name, c.operation, c.value, env)
                 IN  IF d.err # NoErr
                     THEN [err |-> d.err, text |-> <<>>, calls |-> a.calls \o <<c>>,
                           runs |-> a.runs \o (IF d.spawned THEN <<c>> ELSE <<>>)]
                     ELSE LET rest == Expand(after, variables, input, env, inArg) IN
                          [err |-> rest.err, text |-> d.out \o rest.text,
                           calls |-> a.calls \o <<c>> \o rest.calls,
                           runs |-> a.runs \o <<c>> \o rest.runs]
            ELSE LET rest == Expand(after, variables, input, env, inArg) IN
                 [err |-> rest.err,
                  text |-> VariableValue(body, variables, input) \o rest.text,
                  calls |-> rest.calls, runs |-> rest.runs]

\* template.ApplyTemplate(content, variables, input): ("", err) on failure
ApplyTemplate(content, variables, input, env) ==
    LET r == Expand(content, variables, input, env, FALSE) IN
    [err |-> r.err, text |-> IF r.err = NoErr THEN r.text ELSE <<>>, calls |-> r.calls,
     runs |-> r.runs]

----------------------------------------------------------------------------
(* patterns.go *)

\* ensureInput that never appends the placeholder
ensureInput_NoAppend(pattern) == pattern

\* ensureInput that appends the placeholder without the line break
ensureInput_NoLineBreak(pattern) ==
    IF ~Contains(pattern, InputPlaceholder) THEN pattern \o InputPlaceholder ELSE pattern

\* ensureInput that appends the placeholder whether or not one is there
ensureInput_AlwaysAppend(pattern) ==
    (IF HasSuffix(pattern, <<NL>>) THEN pattern ELSE pattern \o <<NL>>) \o InputPlaceholder

\* ensureInput: the Pattern field after the call
ensureInput(pattern) ==
    IF ~Contains(pattern, InputPlaceholder)
    THEN (IF ~HasSuffix(pattern, <<NL>>) THEN pattern \o <<NL>> ELSE pattern)
         \o InputPlaceholder
    ELSE pattern

\* applyInput that substitutes again in the text it produced
applyInput_Twice(pattern, input) ==
    ReplaceAll(ReplaceAll(ensureInput(pattern), InputPlaceholder, input),
               InputPlaceholder, input)

\* applyInput that replaces the placeholder without the input guarantee
applyInput_NoEnsure(pattern, input) == ReplaceAll(pattern, InputPlaceholder, input)

\* applyInput: the Pattern field after the call
applyInput(pattern, input) ==
    ReplaceAll(ensureInput(pattern), InputPlaceholder, input)

\* applyVariables as it was before the fix of line 104: "" handed to ApplyTemplate
applyVariables_EmptyInput(pattern, variables, input, env) ==
    LET ensured      == ensureInput(pattern)
        withSentinel == ReplaceAll(ensured, InputPlaceholder, <<inputSentinel>>)
        processed    == ApplyTemplate(withSentinel, variables, <<>>, env)
    IN  IF processed.err # NoErr
        THEN [err |-> processed.err, Pattern |-> ensured, calls |-> processed.calls,
              runs |-> processed.runs]
        ELSE [err |-> NoErr,
              Pattern |-> ReplaceAll(processed.text, <<inputSentinel>>, input),
              calls |-> processed.calls, runs |-> processed.runs]

\* applyVariables without the sentinel: the input substituted before expansion
applyVariables_NoSentinel(pattern, variables, input, env) ==
    LET ensured   == ensureInput(pattern)
        processed == ApplyTemplate(ReplaceAll(ensured, InputPlaceholder, input),
                                   variables, input, env)
    IN  IF processed.err # NoErr
        THEN [err |-> processed.err, Pattern |-> ensured, calls |-> processed.calls,
              runs |-> processed.runs]
        ELSE [err |-> NoErr, Pattern |-> processed.text, calls |-> processed.calls,
              runs |-> processed.runs]

\* applyVariables that lets a variable named "input" stand for the input
applyVariables_InputFromVariables(pattern, variables, input, env) ==
    LET in           == IF INPUT \in DOMAIN variables THEN variables[INPUT] ELSE input
        ensured      == ensureInput(pattern)
        withSentinel == ReplaceAll(ensured, InputPlaceholder, <<inputSentinel>>)
        processed    == ApplyTemplate(withSentinel, variables, in, env)
    IN  IF processed.err # NoErr
        THEN [err |-> processed.err, Pattern |-> ensured, calls |-> processed.calls,
              runs |-> processed.runs]
        ELSE [err |-> NoErr,
              Pattern |-> ReplaceAll(processed.text, <<inputSentinel>>, in),
              calls |-> processed.calls, runs |-> processed.runs]

\* applyVariables that goes on with what the expander returned when it failed
applyVariables_IgnoreError(pattern, variables, input, env) ==
    LET ensured      == ensureInput(pattern)
        withSentinel == ReplaceAll(ensured, InputPlaceholder, <<inputSentinel>>)
        processed    == ApplyTemplate(withSentinel, variables, input, env)
    IN  [err |-> NoErr,
         Pattern |-> ReplaceAll(processed.text, <<inputSentinel>>, input),
         calls |-> processed.calls, runs |-> processed.runs]

\* applyVariables that expands the text once to validate it and once more
\* for the result
applyVariables_ExpandTwice(pattern, variables, input, env) ==
    LET ensured      == ensureInput(pattern)
        withSentinel == ReplaceAll(ensured, InputPlaceholder, <<inputSentinel>>)
        validated    == ApplyTemplate(withSentinel, variables, input, env)
        processed    == ApplyTemplate(withSentinel, variables, input, env)
    IN  IF processed.err # NoErr
        THEN [err |-> processed.err, Pattern |-> ensured,
              calls |-> validated.calls \o processed.calls,
              runs |-> validated.runs \o processed.runs]
        ELSE [err |-> NoErr,
              Pattern |-> ReplaceAll(processed.text, <<inputSentinel>>, input),
              calls |-> validated.calls \o processed.calls,
              runs |-> validated.runs \o processed.runs]

\* applyVariables: the error returned and the Pattern field after the call
applyVariables(pattern, variables, input, env) ==
    LET ensured      == ensureInput(pattern)
        withSentinel == ReplaceAll(ensured, InputPlaceholder, <<inputSentinel>>)
        processed    == ApplyTemplate(withSentinel, variables, input, env)
    IN  IF processed.err # NoErr
        THEN [err |-> processed.err, Pattern |-> ensured, calls |-> processed.calls,
              runs |-> processed.runs]
        ELSE [err |-> NoErr,
              Pattern |-> ReplaceAll(processed.text, <<inputSentinel>>, input),
              calls |-> processed.calls, runs |-> processed.runs]

\* os.ReadFile of {dir}/{name}/{SystemPatternFile}
ReadFile(dir, name) == IF name \in DOMAIN dir THEN dir[name] ELSE NoFile

\* getFromDB that looks in o.Dir first
getFromDB_MainFirst(name) ==
    IF ReadFile(mainDir, name).exists
    THEN [pattern |-> PatternOf(name, ReadFile(mainDir, name).text), err |-> NoErr]
    ELSE IF CustomPatternsDir # "" /\ ReadFile(customDir, name).exists
         THEN [pattern |-> PatternOf(name, ReadFile(customDir, name).text), err |-> NoErr]
         ELSE [pattern |-> NilPattern, err |-> Err("os.ReadFile", "", "")]

\* getFromDB that stops at the custom directory when one is configured
getFromDB_NoFallback(name) ==
    IF CustomPatternsDir # ""
    THEN IF ReadFile(customDir, name).exists
         THEN [pattern |-> PatternOf(name, ReadFile(customDir, name).text), err |-> NoErr]
         ELSE [pattern |-> NilPattern, err |-> Err("os.ReadFile", "", "")]
    ELSE IF ~ReadFile(mainDir, name).exists
         THEN [pattern |-> NilPattern, err |-> Err("os.ReadFile", "", "")]
         ELSE [pattern |-> PatternOf(name, ReadFile(mainDir, name).text), err |-> NoErr]

\* getFromDB: the custom directory first when one is configured, then o.Dir
getFromDB(name) ==
    IF CustomPatternsDir # "" /\ ReadFile(customDir, name).exists
    THEN [pattern |-> PatternOf(name, ReadFile(customDir, name).text), err |-> NoErr]
    ELSE IF ~ReadFile(mainDir, name).exists
         THEN [pattern |-> NilPattern, err |-> Err("os.ReadFile", "", "")]
         ELSE [pattern |-> PatternOf(name, ReadFile(mainDir, name).text), err |-> NoErr]

\* the user's home directory and the working directory
HomeDir == <<"/", "home">>
WorkDir == <<"/", "work">>

\* getFromFile: "~/" expanded, then os.ReadFile
getFromFile(pathStr) ==
    LET path == IF HasPrefix(pathStr, <<"~", "/">>)
                THEN HomeDir \o <<"/">> \o SubSeq(pathStr, 3, Len(pathStr))
                ELSE pathStr
    IN  IF ~ReadFile(files, path).exists
        THEN [pattern |-> NilPattern, err |-> Err("could not read pattern file", "", "")]
        ELSE [pattern |-> PatternOf(path, ReadFile(files, path).text), err |-> NoErr]

\* util.GetAbsolutePath (not among the sources): the absolute path of a
\* path-like identifier, a leading home marker expanded; absOk: whether
\* the environment lets the resolution succeed
GetAbsolutePath(source, absOk) ==
    IF ~absOk THEN [path |-> <<>>, err |-> Err("GetAbsolutePath", "", "")]
    ELSE IF HasPrefix(source, <<"~", "/">>)
         THEN [path |-> HomeDir \o <<"/">> \o SubSeq(source, 3, Len(source)), err |-> NoErr]
    ELSE IF HasPrefix(source, <<"/">>) THEN [path |-> source, err |-> NoErr]
    ELSE [path |-> WorkDir \o <<"/">> \o source, err |-> NoErr]

\* loadPattern: a path-like identifier is read as a file (the error of
\* getFromFile is dropped, line 69), any other is looked up by name
isFilePath(source) ==
    \/ HasPrefix(source, <<"\\">>)
    \/ HasPrefix(source, <<"/">>)
    \/ HasPrefix(source, <<"~">>)
    \/ HasPrefix(source, <<".">>)

loadPattern(source, absOk) ==
    IF isFilePath(source)
    THEN LET abs == GetAbsolutePath(source, absOk) IN
         IF abs.err # NoErr
         THEN [pattern |-> NilPattern, err |-> Err("could not resolve file path", "", "")]
         ELSE [pattern |-> getFromFile(abs.path).pattern, err |-> NoErr]
    ELSE getFromDB(source)

----------------------------------------------------------------------------
(* The public calls, made one at a time by a caller that looks at what a   *)
(* call returned and then discards it.  call records the arguments,        *)
(* whether the call returned or panicked, the (pattern, err) it returned,  *)
(* the text loadPattern produced and the extension invocations made.       *)

NoCall ==
    [op |-> "none", source |-> <<>>, variables |-> <<>>, input |-> <<>>, env |-> "echo",
     outcome |-> "none", pattern |-> NilPattern, err |-> NoErr,
     loaded |-> NilPattern, calls |-> <<>>, runs |-> <<>>, ensured |-> <<>>, names |-> <<>>]

\* GetApplyVariables(source, variables, input): a nil pattern with a nil
\* error from loadPattern is dereferenced by ensureInput (line 79)
GetApplyVariablesResult(source, variables, input, env, absOk) ==
    LET lp   == loadPattern(source, absOk)
        base == [op |-> "GetApplyVariables", source |-> source, variables |-> variables,
                 input |-> input, env |-> env, outcome |-> "returned",
                 pattern |-> lp.pattern, err |-> lp.err, loaded |-> lp.pattern,
                 calls |-> <<>>, runs |-> <<>>, ensured |-> <<>>, names |-> <<>>]
    IN  IF lp.err # NoErr THEN base
        ELSE IF lp.pattern.isNil THEN [base EXCEPT !.outcome = "panic"]
        ELSE LET av == applyVariables(lp.pattern.Pattern, variables, input, env) IN
             [base EXCEPT !.pattern = PatternOf(lp.pattern.Name, av.Pattern),
                          !.err = av.err, !.calls = av.calls, !.runs = av.runs,
                          !.ensured = ensureInput(lp.pattern.Pattern)]

\* GetWithoutVariables(source, input)
GetWithoutVariablesResult(source, input, absOk) ==
    LET lp   == loadPattern(source, absOk)
        base == [op |-> "GetWithoutVariables", source |-> source, variables |-> <<>>,
                 input |-> input, env |-> "echo", outcome |-> "returned",
                 pattern |-> lp.pattern, err |-> lp.err, loaded |-> lp.pattern,
                 calls |-> <<>>, runs |-> <<>>, ensured |-> <<>>, names |-> <<>>]
    IN  IF lp.err # NoErr THEN base
        ELSE IF lp.pattern.isNil THEN [base EXCEPT !.outcome = "panic"]
        ELSE [base EXCEPT !.pattern =
                 PatternOf(lp.pattern.Name, applyInput(lp.pattern.Pattern, input)),
                          !.ensured = ensureInput(lp.pattern.Pattern)]

\* a resolution that writes the text it produced back to the body file
mainDirAfter_WriteBack(res) ==
    IF ~res.pattern.isNil /\ res.pattern.Name \in DOMAIN mainDir
    THEN [mainDir EXCEPT ![res.pattern.Name] = File(res.pattern.Pattern)]
    ELSE mainDir

\* o.Dir after a resolution returned res: the Pattern that is rewritten is
\* the value built from the bytes read, the files themselves are only read
mainDirAfter(res) == mainDir

----------------------------------------------------------------------------
(* Listing and saving.  A directory holds an entry for every name in its   *)
(* DOMAIN; the entry's body file may be missing (NoFile).                  *)

\* the byte of each character names are written with
CharCode == [c \in {"a", "b", "p"} |-> CASE c = "a" -> 97 [] c = "b" -> 98 [] OTHER -> 112]

\* a < b as Go compares strings: byte by byte, a proper prefix first
RECURSIVE StringLess(_, _)
StringLess(a, b) ==
    IF b = <<>> THEN FALSE
    ELSE IF a = <<>> THEN TRUE
    ELSE IF CharCode[Head(a)] # CharCode[Head(b)] THEN CharCode[Head(a)] < CharCode[Head(b)]
    ELSE StringLess(Tail(a), Tail(b))

\* x put into the ascending sequence sorted
RECURSIVE InsertSorted(_, _)
InsertSorted(x, sorted) ==
    IF sorted = <<>> THEN <<x>>
    ELSE IF StringLess(Head(sorted), x) THEN <<Head(sorted)>> \o InsertSorted(x, Tail(sorted))
    ELSE <<x>> \o sorted

\* sort.Strings(ret)
RECURSIVE SortStrings(_)
SortStrings(ret) ==
    IF ret = <<>> THEN <<>> ELSE InsertSorted(Head(ret), SortStrings(Tail(ret)))

\* StorageEntity.GetNames (not among the sources): the names of the
\* entries of a directory, or the error of reading it
StorageGetNames(dir, which) ==
    IF which \in unlistable
    THEN [names |-> {}, err |-> Err("os.ReadDir", "", "")]
    ELSE [names |-> DOMAIN dir, err |-> NoErr]

\* the keys of nameMap: the main names and, when a custom directory is
\* configured and can be read, the custom names
NameMap ==
    StorageGetNames(mainDir, "main").names \cup
    (IF CustomPatternsDir # "" /\ StorageGetNames(customDir, "custom").err = NoErr
     THEN StorageGetNames(customDir, "custom").names ELSE {})

\* the orders in which ranging over a map can yield its keys
KeyOrders(keys) ==
    {o \in [1..Cardinality(keys) -> keys] : \A i, j \in DOMAIN o : o[i] = o[j] => i = j}

\* GetNames that also gives up when the custom directory cannot be read
GetNamesResult_CustomErrorFails(order) ==
    LET base == [NoCall EXCEPT !.op = "GetNames", !.outcome = "returned"] IN
    IF StorageGetNames(mainDir, "main").err # NoErr
    THEN [base EXCEPT !.err = StorageGetNames(mainDir, "main").err]
    ELSE IF CustomPatternsDir # "" /\ StorageGetNames(customDir, "custom").err # NoErr
    THEN [base EXCEPT !.err = StorageGetNames(customDir, "custom").err]
    ELSE [base EXCEPT !.names = SortStrings(order)]

\* GetNames that returns the keys in the order the map yielded them
GetNamesResult_Unsorted(order) ==
    LET base == [NoCall EXCEPT !.op = "GetNames", !.outcome = "returned"] IN
    IF StorageGetNames(mainDir, "main").err # NoErr
    THEN [base EXCEPT !.err = StorageGetNames(mainDir, "main").err]
    ELSE [base EXCEPT !.names = order]

\* GetNames: order is the order in which the keys of nameMap are appended
\* to ret (line 220) before ret is sorted
GetNamesResult(order) ==
    LET base == [NoCall EXCEPT !.op = "GetNames", !.outcome = "returned"] IN
    IF StorageGetNames(mainDir, "main").err # NoErr
    THEN [base EXCEPT !.err = StorageGetNames(mainDir, "main").err]
    ELSE [base EXCEPT !.names = SortStrings(order)]

\* Save that leaves a body file that is already there as it is
SaveMainDir_KeepExisting(name, content, mkdirOk, writeOk) ==
    IF ~mkdirOk THEN mainDir
    ELSE [n \in DOMAIN mainDir \cup {name} |->
            IF n # name THEN mainDir[n]
            ELSE IF writeOk /\ ~ReadFile(mainDir, name).exists THEN File(content)
            ELSE ReadFile(mainDir, name)]

\* o.Dir after Save(name, content): os.MkdirAll makes the entry, os.WriteFile
\* writes the body file; mkdirOk, writeOk: whether the filesystem lets them
SaveMainDir(name, content, mkdirOk, writeOk) ==
    IF ~mkdirOk THEN mainDir
    ELSE [n \in DOMAIN mainDir \cup {name} |->
            IF n # name THEN mainDir[n]
            ELSE IF writeOk THEN File(content)
            ELSE ReadFile(mainDir, name)]

\* the error Save returns
SaveErr(mkdirOk, writeOk) ==
    IF ~mkdirOk THEN Err("could not create pattern directory", "", "")
    ELSE IF ~writeOk THEN Err("could not save pattern", "", "")
    ELSE NoErr

----------------------------------------------------------------------------
(* The arguments the calls are made with, and the stores they start from *)

\* the longest pattern text, in placeholders and words
MaxSegs == 2

Segments ==
    { <<"x">>, <<NL>>, <<inputSentinel>>, <<L>>,
      InputPlaceholder, <<L, "name", R>>, <<L, "missing", R>>,
      <<EXT, "x", R>>, <<EXT>> \o InputPlaceholder \o <<R>>, <<EXT, L, "name", R, R>> }

RECURSIVE TextsOf(_)
TextsOf(k) ==
    IF k = 0 THEN {<<>>}
    ELSE LET prev == TextsOf(k - 1) IN prev \cup {t \o s : t \in prev, s \in Segments}

Texts == TextsOf(MaxSegs)

\* texts made of extension calls, to registered and unregistered extensions
\* and operations
ExtSegments ==
    { <<"x">>, <<EXT, "x", R>>, <<EXT_CLAUDE, "x", R>>,
      <<EXT>> \o InputPlaceholder \o <<R>>, <<EXT_CLAUDE, L, "name", R, R>>,
      <<EXT_NOEXT, "x", R>>, <<EXT_NOOP, "x", R>> }

RECURSIVE ExtTextsOf(_)
ExtTextsOf(k) ==
    IF k = 0 THEN {<<>>}
    ELSE LET prev == ExtTextsOf(k - 1) IN prev \cup {t \o s : t \in prev, s \in ExtSegments}

ExtTexts == ExtTextsOf(MaxSegs)

StoreTexts == { <<"d">>, <<"c", L, "name", R>>, <<EXT>> \o InputPlaceholder \o <<R>> }

Names == { <<"p">> }
ListedNames == { <<"a">>, <<"a", "b">>, <<"p">> }
SaveContents == { <<"x">>, <<EXT>> \o InputPlaceholder \o <<R>> }
PathF == <<"/", "f">>
HomeF == HomeDir \o <<"/", "f">>
Sources == { <<"p">>, PathF, <<"~", "/", "f">> }

Inputs ==
    { <<>>, <<"hello">>, <<L, "name", R>>, <<EXT, "z", R>>,
      <<"y">> \o InputPlaceholder, <<inputSentinel>> }

VariableMaps ==
    { [n \in {} |-> <<>>],
      [n \in {"name"} |-> <<"v">>],
      [n \in {"name"} |-> <<inputSentinel>>],
      [n \in {"name", "input"} |-> IF n = "name" THEN <<"v">> ELSE <<"w">>] }

\* the threads that make calls in parallel, and a thread that makes none
Threads == {1, 2}
IdleThread ==
    [pc |-> "idle", op |-> "none", source |-> <<>>, variables |-> [n \in {} |-> <<>>],
     input |-> <<>>, env |-> "echo", cell |-> 0, err |-> NoErr, result |-> NilPattern]

\* no dispatcher invocation under way, no child process
IdleInvocation ==
    [pc |-> "idle", name |-> "", operation |-> "", value |-> <<>>, mode |-> "echo",
     elapsed |-> 0, err |-> NoErr, out |-> <<>>]
NoChild == [state |-> "none", todo |-> <<>>, captured |-> <<>>, exit |-> 0]

\* every layout of a small store
Init ==
    /\ mainDir \in [Names -> {NoFile} \cup {File(t) : t \in StoreTexts}]
    /\ customDir \in [Names -> {NoFile} \cup {File(t) : t \in StoreTexts}]
    /\ CustomPatternsDir \in {"", "custom"}
    /\ files \in [{PathF, HomeF} -> {NoFile, File(<<"f">>)}]
    /\ unlistable = {}
    /\ call = NoCall
    /\ thr = [t \in Threads |-> IdleThread]
    /\ heap = [a \in Threads |-> <<>>]
    /\ invocation = IdleInvocation
    /\ child = NoChild

\* every pattern text in the default directory
InitTexts ==
    /\ mainDir \in [Names -> {File(t) : t \in Texts}]
    /\ customDir = [n \in Names |-> NoFile]
    /\ CustomPatternsDir = ""
    /\ files = [f \in {PathF, HomeF} |-> IF f = PathF THEN File(<<"f">>) ELSE NoFile]
    /\ unlistable = {}
    /\ call = NoCall
    /\ thr = [t \in Threads |-> IdleThread]
    /\ heap = [a \in Threads |-> <<>>]
    /\ invocation = IdleInvocation
    /\ child = NoChild

\* a store whose one pattern is any text of extension calls
InitExt ==
    /\ mainDir \in [Names -> {File(t) : t \in ExtTexts}]
    /\ customDir = [n \in Names |-> NoFile]
    /\ CustomPatternsDir = ""
    /\ files = [f \in {PathF, HomeF} |-> NoFile]
    /\ unlistable = {}
    /\ call = NoCall
    /\ thr = [t \in Threads |-> IdleThread]
    /\ heap = [a \in Threads |-> <<>>]
    /\ invocation = IdleInvocation
    /\ child = NoChild

\* every set of entries in the two directories, readable or not
InitNames ==
    /\ \E D \in SUBSET ListedNames : mainDir = [n \in D |-> File(<<"d">>)]
    /\ \E D \in SUBSET ListedNames : customDir = [n \in D |-> File(<<"c">>)]
    /\ CustomPatternsDir \in {"", "custom"}
    /\ files = [f \in {PathF, HomeF} |-> NoFile]
    /\ unlistable \in SUBSET {"main", "custom"}
    /\ call = NoCall
    /\ thr = [t \in Threads |-> IdleThread]
    /\ heap = [a \in Threads |-> <<>>]
    /\ invocation = IdleInvocation
    /\ child = NoChild

GetApplyVariables ==
    \E source \in Sources, variables \in VariableMaps, input \in Inputs,
       env \in ExecModes, absOk \in BOOLEAN :
        /\ call.op = "none"
        /\ call' = GetApplyVariablesResult(source, variables, input, env, absOk)
        /\ mainDir' = mainDirAfter(GetApplyVariablesResult(source, variables, input, env, absOk))
        /\ UNCHANGED <<customDir, CustomPatternsDir, files, unlistable, conc, exec>>

GetWithoutVariables ==
    \E source \in Sources, input \in Inputs, absOk \in BOOLEAN :
        /\ call.op = "none"
        /\ call' = GetWithoutVariablesResult(source, input, absOk)
        /\ mainDir' = mainDirAfter(GetWithoutVariablesResult(source, input, absOk))
        /\ UNCHANGED <<customDir, CustomPatternsDir, files, unlistable, conc, exec>>

\* the caller is done with what the call returned: the Pattern is discarded
Discard ==
    /\ call.op # "none"
    /\ call' = NoCall
    /\ UNCHANGED <<store, conc, exec>>

GetNames ==
    \E order \in KeyOrders(NameMap) :
        /\ call.op = "none"
        /\ call' = GetNamesResult(order)
        /\ UNCHANGED <<store, conc, exec>>

Save ==
    \E name \in Names, content \in SaveContents, mkdirOk \in BOOLEAN, writeOk \in BOOLEAN :
        /\ call.op = "none"
        /\ mainDir' = SaveMainDir(name, content, mkdirOk, writeOk)
        /\ call' = [NoCall EXCEPT !.op = "Save", !.outcome = "returned", !.source = name,
                                   !.input = content, !.err = SaveErr(mkdirOk, writeOk)]
        /\ UNCHANGED <<customDir, CustomPatternsDir, files, unlistable, conc, exec>>

Next == GetApplyVariables \/ GetWithoutVariables \/ GetNames \/ Save \/ Discard

Spec == Init /\ [][Next]_vars
SpecTexts == InitTexts /\ [][Next]_vars

\* the calls that list and write the store
NextNames == GetNames \/ Save \/ Discard

SpecNames == InitNames /\ [][NextNames]_vars
SpecExt == InitExt /\ [][Next]_vars

----------------------------------------------------------------------------
(* Calls made in parallel.  Each thread runs one GetApplyVariables or       *)
(* GetWithoutVariables call in the steps of the code: loadPattern builds    *)
(* the Pattern, ensureInput and the substitution rewrite its Pattern        *)
(* field, the caller reads it after the return.                             *)

\* a getFromDB that hands out one cached Pattern to every caller
NewPattern_Cached(t) == 1

\* the address of the Pattern that getFromDB builds for the call of thread
\* t: &Pattern{...} is a new value on every call
NewPattern(t) == t

ConcInputs == { <<"hello">>, <<"y">> \o InputPlaceholder }
ConcVariableMaps == { [n \in {} |-> <<>>], [n \in {"name"} |-> <<"v">>] }

InitConc ==
    /\ mainDir \in [Names -> {NoFile} \cup {File(t) : t \in StoreTexts}]
    /\ customDir = [n \in Names |-> NoFile]
    /\ CustomPatternsDir = ""
    /\ files = [f \in {PathF, HomeF} |-> NoFile]
    /\ unlistable = {}
    /\ call = NoCall
    /\ thr = [t \in Threads |-> IdleThread]
    /\ heap = [a \in Threads |-> <<>>]
    /\ invocation = IdleInvocation
    /\ child = NoChild

\* lines 32 and 46: loadPattern
T_Load(t) ==
    \E op \in {"GetApplyVariables", "GetWithoutVariables"}, source \in Names,
       variables \in ConcVariableMaps, input \in ConcInputs, env \in ExecModes :
        LET lp   == loadPattern(source, TRUE)
            args == [IdleThread EXCEPT !.op = op, !.source = source, !.input = input,
                        !.variables = IF op = "GetApplyVariables" THEN variables
                                      ELSE IdleThread.variables,
                        !.env = IF op = "GetApplyVariables" THEN env ELSE IdleThread.env]
        IN  /\ thr[t].pc = "idle"
            /\ IF lp.err # NoErr \/ lp.pattern.isNil
               THEN /\ thr' = [thr EXCEPT ![t] = [args EXCEPT !.pc = "done", !.err = lp.err,
                                                              !.result = lp.pattern]]
                    /\ UNCHANGED heap
               ELSE /\ thr' = [thr EXCEPT ![t] = [args EXCEPT !.pc = "loaded",
                                                              !.cell = NewPattern(t)]]
                    /\ heap' = [heap EXCEPT ![NewPattern(t)] = lp.pattern.Pattern]
            /\ UNCHANGED <<store, call, exec>>

\* lines 88 and 95: ensureInput rewrites the Pattern field
T_EnsureInput(t) ==
    /\ thr[t].pc = "loaded"
    /\ heap' = [heap EXCEPT ![thr[t].cell] = ensureInput(heap[thr[t].cell])]
    /\ thr' = [thr EXCEPT ![t].pc = "ensured"]
    /\ UNCHANGED <<store, call, exec>>

\* lines 89 and 97-110: the substitution rewrites the Pattern field
T_Substitute(t) ==
    /\ thr[t].pc = "ensured"
    /\ IF thr[t].op = "GetApplyVariables"
       THEN LET av == applyVariables(heap[thr[t].cell], thr[t].variables,
                                     thr[t].input, thr[t].env)
            IN  /\ heap' = [heap EXCEPT ![thr[t].cell] = av.Pattern]
                /\ thr' = [thr EXCEPT ![t].pc = "substituted", ![t].err = av.err]
       ELSE /\ heap' = [heap EXCEPT ![thr[t].cell] = applyInput(heap[thr[t].cell], thr[t].input)]
            /\ thr' = [thr EXCEPT ![t].pc = "substituted"]
    /\ UNCHANGED <<store, call, exec>>

\* lines 39 and 51: the call returns the *Pattern and the caller reads it
T_Return(t) ==
    /\ thr[t].pc = "substituted"
    /\ thr' = [thr EXCEPT ![t].pc = "done",
                          ![t].result = PatternOf(thr[t].source, heap[thr[t].cell])]
    /\ UNCHANGED <<heap, store, call, exec>>

\* the caller drops what the call returned
T_Discard(t) ==
    /\ thr[t].pc = "done"
    /\ thr' = [thr EXCEPT ![t] = IdleThread]
    /\ UNCHANGED <<heap, store, call, exec>>

NextConc ==
    \E t \in Threads :
        T_Load(t) \/ T_EnsureInput(t) \/ T_Substitute(t) \/ T_Return(t) \/ T_Discard(t)

SpecConc == InitConc /\ [][NextConc]_vars

----------------------------------------------------------------------------
(* One dispatcher invocation in steps: the child process writes its output *)
(* piece by piece and exits, or hangs; time passes until the definition's  *)
(* timeout; the dispatcher returns when the child has exited or when the   *)
(* timer fires.                                                            *)

\* the definition's timeout, in ticks of the clock
TimeoutTicks == 3

\* what the child does: as Execute, or write and never exit
RunModes == ExecModes \cup {"hang"}
RunValues == { <<"x">>, <<"hello", "y">> }

\* what the child writes and the status it exits with, if it exits
Program(mode, value) == Execute(IF mode = "hang" THEN "echo" ELSE mode, value)

\* a dispatcher that returns what was captured when the timer fires and
\* leaves the child running
OnTimeout_PartialOutput(name, operation, captured) ==
    [err |-> NoErr, out |-> captured, kill |-> FALSE]

\* the timer fires while the child runs: the child is terminated and the
\* invocation fails with ExecutionTimeout
OnTimeout(name, operation, captured) ==
    [err |-> Err("ExecutionTimeout", name, operation), out |-> <<>>, kill |-> TRUE]

\* the child has exited: ExecutionFailed on a non-zero status, else the
\* captured output without its trailing line break
OnExit(name, operation, exit, captured) ==
    IF exit # 0
    THEN [err |-> Err("ExecutionFailed", name, operation), out |-> <<>>]
    ELSE [err |-> NoErr, out |-> TrimLineBreak(captured)]

InitRun ==
    /\ mainDir = [n \in Names |-> NoFile]
    /\ customDir = [n \in Names |-> NoFile]
    /\ CustomPatternsDir = ""
    /\ files = [f \in {PathF, HomeF} |-> NoFile]
    /\ unlistable = {}
    /\ call = NoCall
    /\ thr = [t \in Threads |-> IdleThread]
    /\ heap = [a \in Threads |-> <<>>]
    /\ invocation = IdleInvocation
    /\ child = NoChild

\* Run(name, operation, value): the lookups, then the child is started
X_Start ==
    \E tok \in DOMAIN ExtCallOf, value \in RunValues, mode \in RunModes :
        LET name      == ExtCallOf[tok].name
            operation == ExtCallOf[tok].operation
            begun     == [IdleInvocation EXCEPT !.name = name, !.operation = operation,
                                                !.value = value, !.mode = mode]
        IN  /\ invocation.pc = "idle"
            /\ IF name \in DOMAIN ExtensionRegistry
                  /\ operation \in ExtensionRegistry[name].operations
               THEN /\ invocation' = [begun EXCEPT !.pc = "waiting"]
                    /\ child' = [state |-> "running", todo |-> Program(mode, value).stdout,
                                 captured |-> <<>>, exit |-> Program(mode, value).exit]
               ELSE /\ invocation' = [begun EXCEPT !.pc = "returned",
                                          !.err = Dispatch(name, operation, value, mode).err]
                    /\ child' = NoChild
            /\ UNCHANGED <<store, call, conc>>

\* the child writes the next piece of its output
X_Write ==
    /\ child.state = "running"
    /\ child.todo # <<>>
    /\ child' = [child EXCEPT !.todo = Tail(child.todo),
                              !.captured = child.captured \o <<Head(child.todo)>>]
    /\ UNCHANGED <<invocation, store, call, conc>>

\* the child exits
X_Exit ==
    /\ child.state = "running"
    /\ child.todo = <<>>
    /\ invocation.mode # "hang"
    /\ child' = [child EXCEPT !.state = "exited"]
    /\ UNCHANGED <<invocation, store, call, conc>>

\* time passes short of the timeout
X_Tick ==
    /\ invocation.pc = "waiting"
    /\ invocation.elapsed + 1 < TimeoutTicks
    /\ invocation' = [invocation EXCEPT !.elapsed = invocation.elapsed + 1]
    /\ UNCHANGED <<child, store, call, conc>>

\* the timeout elapses and the child has not exited
X_TimerFires ==
    /\ invocation.pc = "waiting"
    /\ invocation.elapsed + 1 = TimeoutTicks
    /\ child.state = "running"
    /\ LET r == OnTimeout(invocation.name, invocation.operation, child.captured) IN
       /\ invocation' = [invocation EXCEPT !.pc = "returned", !.elapsed = TimeoutTicks,
                                            !.err = r.err, !.out = r.out]
       /\ child' = [child EXCEPT !.state = IF r.kill THEN "killed" ELSE child.state]
    /\ UNCHANGED <<store, call, conc>>

\* the dispatcher finds that the child has exited
X_Collect ==
    /\ invocation.pc = "waiting"
    /\ child.state = "exited"
    /\ LET r == OnExit(invocation.name, invocation.operation, child.exit, child.captured) IN
       invocation' = [invocation EXCEPT !.pc = "returned", !.err = r.err, !.out = r.out]
    /\ UNCHANGED <<child, store, call, conc>>

\* the resolver takes the result; the next invocation can begin
X_Done ==
    /\ invocation.pc = "returned"
    /\ child.state # "running"
    /\ invocation' = IdleInvocation
    /\ child' = NoChild
    /\ UNCHANGED <<store, call, conc>>

NextRun == X_Start \/ X_Write \/ X_Exit \/ X_Tick \/ X_TimerFires \/ X_Collect \/ X_Done

\* the clock runs and the dispatcher, once it can return, does
SpecRun ==
    /\ InitRun
    /\ [][NextRun]_vars
    /\ WF_vars(X_Tick)
    /\ WF_vars(X_TimerFires)
    /\ WF_vars(X_Collect)

----------------------------------------------------------------------------
(* Vocabulary of the properties *)

Tokens(s) == {s[i] : i \in 1..Len(s)}

\* the number of placeholders of s still open at its end
RECURSIVE OpenDepthFrom(_, _, _)
OpenDepthFrom(s, i, d) ==
    IF i > Len(s) THEN d
    ELSE IF IsOpen(s[i]) THEN OpenDepthFrom(s, i + 1, d + 1)
    ELSE IF s[i] = R /\ d > 0 THEN OpenDepthFrom(s, i + 1, d - 1)
    ELSE OpenDepthFrom(s, i + 1, d)
OpenDepth(s) == OpenDepthFrom(s, 1, 0)

\* sub occurs in t at index i
OccursAt(t, i, sub) == i + Len(sub) - 1 <= Len(t) /\ SubSeq(t, i, i + Len(sub) - 1) = sub

\* t has an {{input}} outside every other placeholder
TopLevelInput(t) ==
    \E i \in 1..Len(t) :
        /\ OccursAt(t, i, InputPlaceholder)
        /\ OpenDepth(SubSeq(t, 1, i - 1)) = 0

\* t[i] opens the first extension call of t, outside every other
\* placeholder, and its argument is exactly {{input}}
FirstCallTakesInput(t, i) ==
    /\ IsExtOpen(t[i])
    /\ OccursAt(t, i + 1, InputPlaceholder \o <<R>>)
    /\ OpenDepth(SubSeq(t, 1, i - 1)) = 0
    /\ \A k \in 1..(i - 1) : ~IsExtOpen(t[k])

\* the extension and operation of each invocation, in order
CallSites(calls) == [k \in 1..Len(calls) |-> <<calls[k].name, calls[k].operation>>]

Resolved == call.op = "GetApplyVariables" /\ call.outcome = "returned" /\ ~call.loaded.isNil
ResolvedOk == Resolved /\ call.err = NoErr
InputOnly == call.op = "GetWithoutVariables" /\ call.outcome = "returned" /\ ~call.loaded.isNil

----------------------------------------------------------------------------
(* C1: when a pattern's extension call {{ext:N:O:{{input}}}} is resolved by *)
(* GetApplyVariables with input s, the dispatcher is invoked for (N, O)     *)
(* with exactly s as its value; with an echoing extension the resolved      *)
(* text contains s.                                                         *)
C1_NestedInputReachesExtension ==
    Resolved =>
        \A i \in 1..Len(call.loaded.Pattern) :
            FirstCallTakesInput(call.loaded.Pattern, i) =>
                /\ Len(call.calls) >= 1
                /\ call.calls[1].name = ExtCallOf[call.loaded.Pattern[i]].name
                /\ call.calls[1].operation = ExtCallOf[call.loaded.Pattern[i]].operation
                /\ call.calls[1].value = call.input
                /\ (call.env = "echo" =>
                        /\ call.err = NoErr
                        /\ Contains(call.pattern.Pattern, call.input))

C1_Witness ==
    /\ ResolvedOk
    /\ call.loaded.Pattern = <<EXT>> \o InputPlaceholder \o <<R>>
    /\ call.input = <<"hello">>
    /\ call.env = "echo"
    /\ call.calls = <<[name |-> "openai", operation |-> "chat", value |-> <<"hello">>]>>
    /\ call.pattern.Pattern = <<"hello">>

----------------------------------------------------------------------------
\* the input holds placeholder-looking syntax
PlaceholderLooking(input) == \E i \in 1..Len(input) : IsOpen(input[i])

(* C2 as stated: whatever the pattern, for an input with placeholder-       *)
(* looking syntax the text GetApplyVariables produces contains the input    *)
(* literally, and the extension invocations do not depend on the input's    *)
(* content.                                                                 *)
C2_InputAlwaysLiteral ==
    (ResolvedOk /\ PlaceholderLooking(call.input)) =>
        /\ Contains(call.pattern.Pattern, call.input)
        /\ CallSites(call.calls) =
               CallSites(applyVariables(call.loaded.Pattern, call.variables,
                                        <<>>, call.env).calls)

(* C2 amended: when the pattern, after the input guarantee, has an          *)
(* {{input}} outside every other placeholder, the text GetApplyVariables    *)
(* produces contains the input literally, placeholder syntax in it          *)
(* unexpanded; and for every pattern the extensions invoked, and their      *)
(* order, are those invoked for the empty input: none is invoked because    *)
(* of the input's content.                                                  *)
C2_NoDoubleExpansion ==
    Resolved =>
        /\ (call.err = NoErr /\ TopLevelInput(ensureInput(call.loaded.Pattern)))
               => Contains(call.pattern.Pattern, call.input)
        /\ CallSites(call.calls) =
               CallSites(applyVariables(call.loaded.Pattern, call.variables,
                                        <<>>, call.env).calls)

C2_Witness ==
    /\ ResolvedOk
    /\ call.loaded.Pattern = <<"x">>
    /\ call.input = <<EXT, "z", R>>
    /\ call.pattern.Pattern = <<"x", NL, EXT, "z", R>>
    /\ call.calls = <<>>

----------------------------------------------------------------------------
\* the file a path-like identifier names cannot be read
PathUnreadable(source) ==
    /\ isFilePath(source)
    /\ ~ReadFile(files, GetAbsolutePath(source, TRUE).path).exists

(* C3: a path-like identifier whose file cannot be read makes               *)
(* GetApplyVariables and GetWithoutVariables return a non-nil error: no     *)
(* (nil, nil) from the load, no substitution on an absent pattern.          *)
C3_PathFailsHard ==
    (call.op \in {"GetApplyVariables", "GetWithoutVariables"} /\ PathUnreadable(call.source))
        => (call.outcome = "returned" /\ call.err # NoErr /\ call.pattern.isNil)

----------------------------------------------------------------------------
(* C4: when an extension call fails during GetApplyVariables, the call      *)
(* returns an error naming the extension and operation, and no pattern:     *)
(* never a pattern whose text is unresolved.                                *)
C4_AllOrNothing ==
    (Resolved /\ call.err # NoErr) =>
        /\ Len(call.calls) >= 1
        /\ call.err.name = call.calls[Len(call.calls)].name
        /\ call.err.operation = call.calls[Len(call.calls)].operation
        /\ call.pattern.isNil

----------------------------------------------------------------------------
InBothDirectories(name) ==
    /\ ~isFilePath(name)
    /\ CustomPatternsDir # ""
    /\ ReadFile(customDir, name).exists
    /\ ReadFile(mainDir, name).exists

(* C5: a bare name whose body file is readable in both the configured       *)
(* custom directory and the default directory loads the custom              *)
(* directory's content; the default directory's file is not used.           *)
C5_OverridePrecedence ==
    (call.op \in {"GetApplyVariables", "GetWithoutVariables"} /\ InBothDirectories(call.source))
        => /\ call.outcome = "returned"
           /\ ~call.loaded.isNil
           /\ call.loaded.Name = call.source
           /\ call.loaded.Pattern = ReadFile(customDir, call.source).text

C5_Witness ==
    /\ call.op = "GetWithoutVariables"
    /\ InBothDirectories(call.source)
    /\ ReadFile(customDir, call.source).text # ReadFile(mainDir, call.source).text
    /\ call.loaded.Pattern = ReadFile(customDir, call.source).text
    /\ call.input = <<"hello">>
    /\ call.err = NoErr

----------------------------------------------------------------------------
(* C6 as stated: the final text of every successful resolution, in either   *)
(* mode, contains the input, also when the pattern's only {{input}} sits    *)
(* inside an extension-call argument.                                       *)
C6_InputInEveryResult ==
    ((ResolvedOk \/ InputOnly) /\ call.err = NoErr)
        => Contains(call.pattern.Pattern, call.input)

(* C6 amended: a pattern text lacking {{input}} gets one appended before    *)
(* substitution (a failed resolution hands back the text so extended);      *)
(* the final text of GetWithoutVariables always contains the input, and     *)
(* that of a successful GetApplyVariables contains it when the text, after  *)
(* the input guarantee, has an {{input}} outside every other placeholder,   *)
(* and then ends with it when the {{input}} was the appended one.           *)
C6_InputPresent ==
    /\ InputOnly =>
          /\ Contains(call.pattern.Pattern, call.input)
          /\ ~Contains(call.loaded.Pattern, InputPlaceholder)
                => HasSuffix(call.pattern.Pattern, <<NL>> \o call.input)
    /\ (Resolved /\ call.err # NoErr) =>
          /\ Contains(call.pattern.Pattern, InputPlaceholder)
          /\ ~Contains(call.loaded.Pattern, InputPlaceholder)
                => /\ HasPrefix(call.pattern.Pattern, call.loaded.Pattern)
                   /\ HasSuffix(call.pattern.Pattern, <<NL>> \o InputPlaceholder)
    /\ (ResolvedOk /\ TopLevelInput(ensureInput(call.loaded.Pattern))) =>
          /\ Contains(call.pattern.Pattern, call.input)
          /\ ~Contains(call.loaded.Pattern, InputPlaceholder)
                => HasSuffix(call.pattern.Pattern, <<NL>> \o call.input)

C6_Witness ==
    /\ ResolvedOk
    /\ call.loaded.Pattern = <<EXT, "x", R>>
    /\ call.env = "fixed"
    /\ call.input = <<"hello">>
    /\ call.pattern.Pattern = <<"ok", NL, "hello">>

----------------------------------------------------------------------------
\* where {{input}} starts in e
InputStarts(e) == {i \in 1..Len(e) : OccursAt(e, i, InputPlaceholder)}

\* e with the input s written at every start of {{input}} and the
\* placeholder's own tokens left out
RECURSIVE InputWrittenFrom(_, _, _)
InputWrittenFrom(e, s, i) ==
    IF i > Len(e) THEN <<>>
    ELSE (IF i \in InputStarts(e) THEN s
          ELSE IF (i - 1) \in InputStarts(e) \/ (i - 2) \in InputStarts(e) THEN <<>>
          ELSE <<e[i]>>) \o InputWrittenFrom(e, s, i + 1)

\* the text the input guarantee promises for t
WithInputPlaceholder(t) ==
    IF InputStarts(t) # {} THEN t
    ELSE IF t # <<>> /\ t[Len(t)] = NL THEN t \o InputPlaceholder
    ELSE t \o <<NL>> \o InputPlaceholder

(* C7: GetWithoutVariables yields the text after the input guarantee with   *)
(* each {{input}} replaced once by the input; every other placeholder       *)
(* stays literal, no extension is invoked, and placeholder syntax in the    *)
(* input, {{input}} included, is not expanded again.                        *)
C7_InputOnlyMode ==
    InputOnly =>
        /\ call.err = NoErr
        /\ call.calls = <<>>
        /\ call.pattern.Name = call.loaded.Name
        /\ call.pattern.Pattern =
               InputWrittenFrom(WithInputPlaceholder(call.loaded.Pattern), call.input, 1)

C7_Witness ==
    /\ InputOnly
    /\ call.loaded.Pattern = <<L, "name", R>> \o InputPlaceholder
    /\ call.input = <<"y">> \o InputPlaceholder
    /\ call.pattern.Pattern = <<L, "name", R, "y">> \o InputPlaceholder

----------------------------------------------------------------------------
(* C8 as stated: the pattern {{missing}} with an empty variable mapping     *)
(* resolves without error to the empty string.                              *)
C8_MissingIsEmptyText ==
    (Resolved /\ call.loaded.Pattern = <<L, "missing", R>> /\ DOMAIN call.variables = {})
        => (call.err = NoErr /\ call.pattern.Pattern = <<>>)

(* C8 amended: the pattern {{missing}} with a mapping that has no such key  *)
(* resolves without error, the placeholder contributing the empty string:   *)
(* the text is the line break and the input that the input guarantee        *)
(* appends.  In general an unknown {{missing}} leaves nothing of itself in  *)
(* the text and the only failures are failed extension calls.               *)
C8_UnknownVariableTolerated ==
    Resolved =>
        /\ call.loaded.Pattern = <<L, "missing", R>>
              => (call.err = NoErr /\ call.pattern.Pattern = <<NL>> \o call.input)
        /\ call.err = NoErr => "missing" \notin Tokens(call.pattern.Pattern)
        /\ call.err # NoErr =>
              /\ call.err.kind = "ExecutionFailed"
              /\ call.env = "exit1"
              /\ Len(call.calls) >= 1

C8_Witness ==
    /\ ResolvedOk
    /\ call.loaded.Pattern = <<L, "missing", R>>
    /\ DOMAIN call.variables = {}
    /\ call.input = <<"hello">>
    /\ call.pattern.Pattern = <<NL, "hello">>

----------------------------------------------------------------------------
WithoutInputKey(variables) == [n \in (DOMAIN variables) \ {INPUT} |-> variables[n]]

(* C9: with a variable mapping that has a key "input", every {{input}} of   *)
(* the pattern, at top level or in an extension-call argument, is bound to  *)
(* the input argument and never to the mapping's value; the result is the   *)
(* one obtained with the key removed.                                       *)
C9_InputKeyReserved ==
    (Resolved /\ INPUT \in DOMAIN call.variables) =>
        LET other == applyVariables(call.loaded.Pattern, WithoutInputKey(call.variables),
                                    call.input, call.env)
        IN  /\ call.err = other.err
            /\ call.pattern.Pattern = other.Pattern
            /\ call.calls = other.calls
            /\ "w" \notin Tokens(call.pattern.Pattern)
            /\ \A k \in 1..Len(call.calls) : "w" \notin Tokens(call.calls[k].value)
            /\ call.loaded.Pattern = <<EXT>> \o InputPlaceholder \o <<R>> \o InputPlaceholder
                  => /\ call.calls[1].value = call.input
                     /\ call.err = NoErr => HasSuffix(call.pattern.Pattern, call.input)

C9_Witness ==
    /\ ResolvedOk
    /\ INPUT \in DOMAIN call.variables
    /\ call.variables[INPUT] = <<"w">>
    /\ call.loaded.Pattern = <<EXT>> \o InputPlaceholder \o <<R>> \o InputPlaceholder
    /\ call.input = <<"hello">>
    /\ call.env = "echo"
    /\ call.pattern.Pattern = <<"hello", "hello">>

----------------------------------------------------------------------------
SentinelFree(variables, input) ==
    /\ inputSentinel \notin Tokens(input)
    /\ \A n \in DOMAIN variables : inputSentinel \notin Tokens(variables[n])

(* C10: after a successful GetApplyVariables the text holds no sentinel     *)
(* that the resolver introduced, and a sentinel that came from the user,    *)
(* here in the pattern file, is emitted verbatim and not rewritten to the   *)
(* input.                                                                   *)
C10_SentinelInvisible ==
    (ResolvedOk /\ SentinelFree(call.variables, call.input)) =>
        /\ inputSentinel \notin Tokens(call.loaded.Pattern)
              => inputSentinel \notin Tokens(call.pattern.Pattern)
        /\ (\E i \in 1..Len(call.loaded.Pattern) :
                /\ call.loaded.Pattern[i] = inputSentinel
                /\ OpenDepth(SubSeq(call.loaded.Pattern, 1, i - 1)) = 0)
              => inputSentinel \in Tokens(call.pattern.Pattern)

----------------------------------------------------------------------------
\* the sequence lists its elements in strictly ascending order
StrictlyAscending(ns) ==
    \A i \in 1..Len(ns) : \A j \in 1..Len(ns) : i < j => StringLess(ns[i], ns[j])

Listed(ns) == {ns[i] : i \in 1..Len(ns)}

\* the names of the custom directory, when one is configured
CustomEntries == IF CustomPatternsDir # "" THEN DOMAIN customDir ELSE {}

(* C11: when both directories can be read, a successful GetNames returns    *)
(* the names of the default directory and of the configured custom          *)
(* directory, each once, in ascending order; the sequence is determined by  *)
(* the entries of the two directories.                                      *)
C11_SortedUnion ==
    (call.op = "GetNames" /\ unlistable = {}) =>
        /\ call.err = NoErr
        /\ Listed(call.names) = DOMAIN mainDir \cup CustomEntries
        /\ StrictlyAscending(call.names)

C11_Witness ==
    /\ call.op = "GetNames"
    /\ unlistable = {}
    /\ CustomPatternsDir # ""
    /\ DOMAIN mainDir = { <<"p">>, <<"a">> }
    /\ DOMAIN customDir = { <<"a", "b">>, <<"a">> }
    /\ call.names = << <<"a">>, <<"a", "b">>, <<"p">> >>

----------------------------------------------------------------------------
\* a resolution that reached the input-guarantee step
Ensured ==
    /\ call.op \in {"GetApplyVariables", "GetWithoutVariables"}
    /\ call.outcome = "returned"
    /\ ~call.loaded.isNil

(* C16: the input-guarantee step leaves a text that contains {{input}} as   *)
(* it is; otherwise the result is the text, a line break unless the text    *)
(* already ends with one, and one {{input}}.  The result always contains    *)
(* {{input}}, begins with the whole original text, and the step applied to  *)
(* its own result changes nothing.                                          *)
C16_EnsureInput ==
    Ensured =>
        LET t == call.loaded.Pattern
            e == call.ensured
        IN  /\ Contains(t, InputPlaceholder) => e = t
            /\ ~Contains(t, InputPlaceholder) =>
                   e = t \o (IF HasSuffix(t, <<NL>>) THEN <<>> ELSE <<NL>>) \o InputPlaceholder
            /\ Contains(e, InputPlaceholder)
            /\ Len(e) >= Len(t) /\ SubSeq(e, 1, Len(t)) = t
            /\ ensureInput(e) = e

C16_Witness ==
    /\ Ensured
    /\ call.loaded.Pattern = <<L, "name", R, NL>>
    /\ call.ensured = <<L, "name", R, NL>> \o InputPlaceholder

----------------------------------------------------------------------------
\* a bare name that the custom directory does not serve
NotInCustom(name) ==
    /\ ~isFilePath(name)
    /\ CustomPatternsDir = "" \/ ~ReadFile(customDir, name).exists

(* C17: for a bare name that no configured custom directory holds a         *)
(* readable body file for, the default directory's file is loaded; when     *)
(* the default directory has none either, the call returns an error and a   *)
(* nil pattern, and no substitution is run.                                 *)
C17_LayeredLookup ==
    (call.op \in {"GetApplyVariables", "GetWithoutVariables"} /\ NotInCustom(call.source)) =>
        IF ReadFile(mainDir, call.source).exists
        THEN /\ call.outcome = "returned"
             /\ call.loaded = PatternOf(call.source, ReadFile(mainDir, call.source).text)
        ELSE /\ call.outcome = "returned"
             /\ call.err # NoErr
             /\ call.pattern = NilPattern
             /\ call.ensured = <<>>
             /\ call.calls = <<>>

C17_Witness ==
    /\ call.op = "GetApplyVariables"
    /\ call.source = <<"p">>
    /\ CustomPatternsDir # ""
    /\ ~ReadFile(customDir, <<"p">>).exists
    /\ ReadFile(mainDir, <<"p">>).exists
    /\ call.loaded = PatternOf(<<"p">>, mainDir[<<"p">>].text)
    /\ call.err = NoErr

----------------------------------------------------------------------------
(* C18: when the configured custom directory cannot be read, GetNames       *)
(* succeeds with the default directory's names in ascending order; when     *)
(* the default directory cannot be read, GetNames returns the error and no  *)
(* names, whatever the custom directory holds.                              *)
C18_ListingErrors ==
    call.op = "GetNames" =>
        /\ "main" \in unlistable => call.err # NoErr /\ call.names = <<>>
        /\ ("main" \notin unlistable /\ "custom" \in unlistable) =>
               /\ call.err = NoErr
               /\ Listed(call.names) = DOMAIN mainDir
               /\ StrictlyAscending(call.names)

C18_Witness ==
    /\ call.op = "GetNames"
    /\ unlistable = {"custom"}
    /\ CustomPatternsDir # ""
    /\ DOMAIN customDir = { <<"a">> }
    /\ call.err = NoErr
    /\ call.names = << <<"a", "b">>, <<"p">> >>

----------------------------------------------------------------------------
(* C19: a step that is a GetApplyVariables, GetWithoutVariables or          *)
(* GetNames call leaves both directories, the files and the configuration   *)
(* as they were.                                                            *)
C19_ResolutionReadOnly ==
    [][call'.op \in {"GetApplyVariables", "GetWithoutVariables", "GetNames"}
          => store' = store]_vars

C19_Witness ==
    /\ call.op = "GetApplyVariables"
    /\ call.err = NoErr
    /\ call.source = <<"p">>
    /\ ~call.pattern.isNil
    /\ call.pattern.Pattern # call.loaded.Pattern
    /\ getFromDB(<<"p">>).pattern = call.loaded

----------------------------------------------------------------------------
\* the configured custom directory serves the name
InCustom(name) == CustomPatternsDir # "" /\ ReadFile(customDir, name).exists

----------------------------------------------------------------------------
\* the extension and the operation of a dispatcher invocation are registered
Registered(c) ==
    /\ c.name \in DOMAIN ExtensionRegistry
    /\ c.operation \in ExtensionRegistry[c.name].operations

\* the text holds a call to an unregistered extension or operation
HasUnregistered(t) ==
    \E i \in 1..Len(t) : IsExtOpen(t[i]) /\ ~Registered(ExtCallOf[t[i]])

(* C12: a call to an extension that is not registered fails with            *)
(* ExtensionNotFound(name), a call to an operation the extension does not   *)
(* have with OperationNotFound(name, operation); no child process is        *)
(* started for such a call, it is the last thing the resolution does, and   *)
(* the resolution returns that error.                                       *)
C12_UnknownExtensionOrOperation ==
    Resolved =>
        /\ \A k \in 1..Len(call.calls) :
              ~Registered(call.calls[k]) =>
                 /\ k = Len(call.calls)
                 /\ call.err =
                      IF call.calls[k].name \notin DOMAIN ExtensionRegistry
                      THEN Err("ExtensionNotFound", call.calls[k].name, "")
                      ELSE Err("OperationNotFound", call.calls[k].name, call.calls[k].operation)
                 /\ call.runs = SubSeq(call.calls, 1, k - 1)
        /\ \A k \in 1..Len(call.runs) : Registered(call.runs[k])
        /\ HasUnregistered(call.loaded.Pattern) => call.err # NoErr

C12_Witness ==
    /\ Resolved
    /\ call.loaded.Pattern = <<EXT, "x", R, EXT_NOOP, "x", R>>
    /\ call.env = "echo"
    /\ call.err = Err("OperationNotFound", "openai", "nosuch")
    /\ call.runs = <<[name |-> "openai", operation |-> "chat", value |-> <<"x">>]>>
    /\ Len(call.calls) = 2

----------------------------------------------------------------------------
\* the indexes of the extension calls of t from index i on, left to right
RECURSIVE SitesFrom(_, _)
SitesFrom(t, i) ==
    IF i > Len(t) THEN <<>>
    ELSE IF IsExtOpen(t[i]) THEN <<i>> \o SitesFrom(t, i + 1)
    ELSE SitesFrom(t, i + 1)

\* the value the call at index i of t is to be made with: its argument is
\* a word, {{input}} or a variable
SiteValue(t, i, variables, input) ==
    IF t[i + 1] # L THEN <<t[i + 1]>>
    ELSE IF t[i + 2] = INPUT THEN input
    ELSE IF t[i + 2] \in DOMAIN variables THEN variables[t[i + 2]]
    ELSE <<>>

\* the invocations the call sites of t ask for, in the order of the text
SiteCalls(t, variables, input) ==
    LET sites == SitesFrom(t, 1) IN
    [k \in 1..Len(sites) |->
        [name |-> ExtCallOf[t[sites[k]]].name,
         operation |-> ExtCallOf[t[sites[k]]].operation,
         value |-> SiteValue(t, sites[k], variables, input)]]

\* t with every call site replaced by the word its invocation printed and
\* every other placeholder by its value
RECURSIVE SitesReplaced(_, _, _, _, _)
SitesReplaced(t, i, variables, input, word) ==
    IF i > Len(t) THEN <<>>
    ELSE IF IsExtOpen(t[i])
         THEN <<word>> \o SitesReplaced(t, IF t[i + 1] = L THEN i + 5 ELSE i + 3,
                                        variables, input, word)
    ELSE IF t[i] = L
         THEN SiteValue(t, i - 1, variables, input)
                \o SitesReplaced(t, i + 3, variables, input, word)
    ELSE <<t[i]>> \o SitesReplaced(t, i + 1, variables, input, word)

----------------------------------------------------------------------------
\* what the call of thread t returns when it is the only call running
Alone(t) ==
    IF thr[t].op = "GetApplyVariables"
    THEN GetApplyVariablesResult(thr[t].source, thr[t].variables, thr[t].input,
                                 thr[t].env, TRUE)
    ELSE GetWithoutVariablesResult(thr[t].source, thr[t].input, TRUE)

\* the thread holds a Pattern it is working on
Working(t) == thr[t].pc \in {"loaded", "ensured", "substituted"}

(* C15: with calls running in parallel and no Save, two calls at work       *)
(* never hold the same Pattern, and what a call returns, however the        *)
(* steps of the others fall between its own, is what it returns when run    *)
(* alone.                                                                   *)
C15_Independent ==
    /\ \A t \in Threads : \A u \in Threads :
          (t # u /\ Working(t) /\ Working(u)) => thr[t].cell # thr[u].cell
    /\ \A t \in Threads :
          thr[t].pc = "done" =>
             /\ thr[t].result = Alone(t).pattern
             /\ thr[t].err = Alone(t).err

C15_Witness ==
    /\ thr[1].pc = "done"
    /\ thr[1].op = "GetApplyVariables"
    /\ thr[1].err = NoErr
    /\ thr[1].result.Pattern = <<"c", "v", NL, "hello">>
    /\ thr[2].pc = "substituted"
    /\ thr[2].op = "GetWithoutVariables"
    /\ thr[2].source = thr[1].source
    /\ heap[thr[2].cell] = <<"c", L, "name", R, NL, "y">> \o InputPlaceholder

----------------------------------------------------------------------------
\* the invocation returned because its timeout elapsed
TimedOut == invocation.pc = "returned" /\ invocation.elapsed = TimeoutTicks

(* C13: an invocation that waits for its child eventually returns; when it  *)
(* has returned no child of it is running; and when it returned because     *)
(* the timeout elapsed, it returned ExecutionTimeout(name, operation), the  *)
(* child was terminated, and nothing of the captured output was returned.   *)
C13_TimeoutBounded ==
    /\ (invocation.pc = "waiting") ~> (invocation.pc = "returned")
    /\ [](invocation.pc = "returned" => child.state # "running")
    /\ [](TimedOut =>
            /\ invocation.err = Err("ExecutionTimeout", invocation.name, invocation.operation)
            /\ invocation.out = <<>>
            /\ child.state = "killed")

C13_Witness ==
    /\ TimedOut
    /\ invocation.mode = "hang"
    /\ invocation.err = Err("ExecutionTimeout", "openai", "chat")
    /\ child.state = "killed"
    /\ child.captured = <<"hello", "y", NL>>
    /\ invocation.out = <<>>

----------------------------------------------------------------------------
\* the text holds no placeholder other than {{input}} and no sentinel
PlainText(t) ==
    /\ inputSentinel \notin Tokens(t)
    /\ \A i \in 1..Len(t) :
          /\ ~IsExtOpen(t[i])
          /\ t[i] = L => OccursAt(t, i, InputPlaceholder)

====
